---- MODULE Spec2Model ----
(***************************************************************************)
(* A model of the knodiq audio engine: the node graph (graph/graph.rs),    *)
(* the buffer track renderer (mixing/track/buffer_track.rs) and the mixer  *)
(* transport loop (mixing/mixer.rs).                                       *)
(*                                                                         *)
(* Node ids (UUIDs in the source) are small naturals.  A Value travelling  *)
(* through the graph is abstracted to "absent" or "a buffer with n samples *)
(* per channel".  Beats are whole numbers and samples-per-beat is an exact  *)
(* fraction; the tempos and sample rates explored keep every value dyadic, *)
(* so the f32 arithmetic of the source is exact on them.                   *)
(***************************************************************************)
EXTENDS Integers, Sequences, FiniteSets, TLC

VARIABLES
    graph,        \* the Graph under test: nodes, connections, input_node, output_node
    sortResult,   \* result of the last Graph::topological_sort call (or "none")
    procResult,   \* result of the last Graph::process call (or "none")
    ops,          \* number of Graph operations called so far
    mixer,        \* the Mixer: tracks, tempo, channels, sample_rate, playhead_beats
    output,       \* the local `output` of Mixer::mix
    frame,        \* the other locals of Mixer::mix and process_chunk
    pc,           \* where the running Mixer::mix call stands
    returned,     \* what Mixer::mix returned
    log,          \* the render_chunk_at and callback calls made by Mixer::mix, in order
    calls,        \* number of Mixer set-up operations called so far
    lastCall,     \* the last call made on the object under test: operation,
                  \* arguments, and the object as it was before the call
    buffer_track, \* the BufferTrack under test
    history,      \* the calls made on that track object since it was made
    audio_source, \* the AudioSource under test
    operands      \* the Values passed to Value::apply_op

graphVars == <<graph, sortResult, procResult, ops>>
mixVars == <<mixer, output, frame, pc, returned, log, calls>>
unitVars == <<lastCall, buffer_track, history, audio_source, operands>>

----------------------------------------------------------------------------
(* Bounds *)

MaxOps == 4        \* length of the sequences of Graph operations explored
MaxNodeId == 3     \* node ids are 1..MaxNodeId
GraphChunkLen == 2 \* chunk_end - chunk_start of the Graph::process calls
MaxCalls == 2      \* length of the sequences of Mixer set-up operations explored
MaxEdits == 3      \* length of the sequences of graph edits explored with their calls
MaxLeaf == 2       \* largest sample of the operands of / and %
MaxRenders == 2    \* render_chunk_at calls on the track whose regions are followed
MaxDim == 3        \* largest length of a dimension of the Values explored
MaxSamples == 2    \* lengths and offsets of the buffers passed to AudioSource calls
MaxMixAts == 2     \* number of mix_at calls explored on one AudioSource
MaxTrackOps == 3   \* number of calls explored on one BufferTrack object
MaxTrackCalls == 5 \* length of the sequences of add_track / remove_track calls explored

NodeIds == 1..MaxNodeId
FromPorts == {"output", "bogus"}
ToPorts == {"input", "buffer"}

----------------------------------------------------------------------------
(* Values and nodes *)

\* Option<Value>: None, or a buffer value with len samples per channel.
NoValue == [some |-> FALSE, len |-> 0]
BufferValue(n) == [some |-> TRUE, len |-> n]

\* A node of kind EmptyNode or BufferOutputNode, freshly constructed.
NewNode(id, kind) == [id |-> id, kind |-> kind, input |-> NoValue, output |-> NoValue]

get_input_list(node) ==
    IF node.kind = "BufferOutputNode" THEN {"buffer"} ELSE {"input"}

get_output_list(node) == {"output"}

set_input(node, key, value) ==
    IF key \in get_input_list(node) THEN [node EXCEPT !.input = value] ELSE node

get_output(node, key) ==
    IF key = "output" THEN node.output ELSE NoValue

\* Node::process: the node after the call and whether it returned Ok.
node_process(node, chunk_start, chunk_end) ==
    IF node.kind = "BufferOutputNode"
    THEN IF node.input.some
         THEN [node |-> [node EXCEPT !.output = node.input], ok |-> TRUE]
         ELSE [node |-> [node EXCEPT !.output = BufferValue(chunk_end - chunk_start)],
               ok |-> FALSE]
    ELSE [node |-> [node EXCEPT !.output =
                       IF node.input.some THEN node.input
                       ELSE BufferValue(chunk_end - chunk_start)],
          ok |-> TRUE]

----------------------------------------------------------------------------
(* Graph *)

Connector(from, from_param, to, to_param) ==
    [from |-> from, from_param |-> from_param, to |-> to, to_param |-> to_param]

\* Graph::new(input_node): the output node gets a fresh id.
NewGraph(input_id, output_id) ==
    [nodes |-> <<NewNode(input_id, "EmptyNode"), NewNode(output_id, "BufferOutputNode")>>,
     connections |-> <<>>,
     input_node |-> input_id,
     output_node |-> output_id]

\* Index of the first node with the given id, 0 when there is none.
get_node(g, id) ==
    IF \E i \in DOMAIN g.nodes : g.nodes[i].id = id
    THEN CHOOSE i \in DOMAIN g.nodes :
            /\ g.nodes[i].id = id
            /\ \A j \in DOMAIN g.nodes : g.nodes[j].id = id => i <= j
    ELSE 0

add_node(g, node) == [g EXCEPT !.nodes = Append(@, node)]

\* The connectors remove_node(id) keeps (graph.rs:168-169).
KeepsConnectorFromOnly(c, id) == c.from # id
KeepsConnector(c, id) == c.from # id /\ c.to # id

remove_node(g, id) ==
    IF id = g.input_node \/ id = g.output_node
    THEN g
    ELSE [g EXCEPT !.nodes = SelectSeq(@, LAMBDA n : n.id # id),
                   !.connections = SelectSeq(@, LAMBDA c : KeepsConnector(c, id))]

\* The exact connection already exists (graph.rs:176-180).
ConnectionExistsNever(g, c) == FALSE
ConnectionExists(g, c) == \E i \in DOMAIN g.connections : g.connections[i] = c

connect(g, from, from_param, to, to_param) ==
    IF ConnectionExists(g, Connector(from, from_param, to, to_param))
    THEN g
    ELSE IF get_node(g, from) = 0 \/ get_node(g, to) = 0
    THEN g
    ELSE IF /\ from_param \notin get_output_list(g.nodes[get_node(g, from)])
            /\ to_param \notin get_input_list(g.nodes[get_node(g, to)])
    THEN g
    ELSE [g EXCEPT !.connections = Append(@, Connector(from, from_param, to, to_param))]

disconnect(g, from, from_param, to, to_param) ==
    [g EXCEPT !.connections =
        SelectSeq(@, LAMBDA c : c # Connector(from, from_param, to, to_param))]

----------------------------------------------------------------------------
(* Graph::topological_sort *)

\* Keys of the in_degree map: every node id, plus (or_insert) every connector target.
InDegreeKeys(g) ==
    {g.nodes[i].id : i \in DOMAIN g.nodes} \cup
    {g.connections[i].to : i \in DOMAIN g.connections}

in_degree(g) ==
    [n \in InDegreeKeys(g) |->
        Cardinality({i \in DOMAIN g.connections : g.connections[i].to = n})]

\* adj_list[n]: the targets of n's outgoing connectors, in connector order.
adj_list(g, n) ==
    LET out == SelectSeq(g.connections, LAMBDA c : c.from = n)
    IN  [i \in 1..Len(out) |-> out[i].to]

\* All sequences that enumerate the set S once each.
Orders(S) ==
    {s \in [1..Cardinality(S) -> S] : \A x \in S : \E i \in DOMAIN s : s[i] = x}

\* The orders in which the HashMap iteration can put the zero-degree nodes in the queue.
QueueOrders(g) == Orders({n \in InDegreeKeys(g) : in_degree(g)[n] = 0})

\* The inner for loop: decrement each neighbour, enqueue those that reach zero.
RECURSIVE ReduceNeighbors(_, _, _, _)
ReduceNeighbors(neighbors, k, queue, deg) ==
    IF k > Len(neighbors)
    THEN [queue |-> queue, deg |-> deg]
    ELSE LET nb == neighbors[k]
         IN  IF nb \in DOMAIN deg
             THEN ReduceNeighbors(neighbors, k + 1,
                      IF deg[nb] - 1 = 0 THEN Append(queue, nb) ELSE queue,
                      [deg EXCEPT ![nb] = @ - 1])
             ELSE ReduceNeighbors(neighbors, k + 1, queue, deg)

\* The while loop over the queue.
RECURSIVE KahnLoop(_, _, _, _)
KahnLoop(g, queue, sorted, deg) ==
    IF queue = <<>>
    THEN sorted
    ELSE LET node == Head(queue)
             r == ReduceNeighbors(adj_list(g, node), 1, Tail(queue), deg)
         IN  KahnLoop(g, r.queue, Append(sorted, node), r.deg)

\* A length check that only notices a surplus of sorted nodes.
SortLengthCheckSurplusOnly(sorted, g) == Len(sorted) > Len(g.nodes)

\* "Return the error when the cycle is detected"
SortLengthCheck(sorted, g) == Len(sorted) # Len(g.nodes)

\* Result of topological_sort when the HashMap yields the zero-degree nodes as `order`.
topological_sort(g, order) ==
    LET sorted == KahnLoop(g, order, <<>>, in_degree(g))
    IN  IF SortLengthCheck(sorted, g)
        THEN [ok |-> FALSE, sorted |-> <<>>]
        ELSE [ok |-> TRUE, sorted |-> sorted]

----------------------------------------------------------------------------
(* Graph::process *)

\* The (to_param, value) pairs collected for node_id: one per incoming connector
\* whose source node exists and has the named output.
input_values(g, node_id) ==
    LET connected == SelectSeq(g.connections, LAMBDA c : c.to = node_id)
        have == SelectSeq(connected, LAMBDA c :
                    /\ get_node(g, c.from) # 0
                    /\ get_output(g.nodes[get_node(g, c.from)], c.from_param).some)
    IN  [i \in 1..Len(have) |->
            [to_param |-> have[i].to_param,
             value |-> get_output(g.nodes[get_node(g, have[i].from)], have[i].from_param)]]

RECURSIVE PassInputs(_, _, _)
PassInputs(node, values, k) ==
    IF k > Len(values) THEN node
    ELSE PassInputs(set_input(node, values[k].to_param, values[k].value), values, k + 1)

\* Step 3 of process: read the output node's "buffer" output.
ReadOutput(g) ==
    LET i == get_node(g, g.output_node)
    IN  IF i = 0
        THEN [ok |-> FALSE, err |-> "Output node not found", len |-> 0]
        ELSE IF get_output(g.nodes[i], "buffer").some
        THEN [ok |-> TRUE, err |-> "", len |-> get_output(g.nodes[i], "buffer").len]
        ELSE [ok |-> FALSE, err |-> "Output not found", len |-> 0]

\* Step 2 of process: visit the sorted nodes from position k on.  `called` lists
\* the ids of the nodes whose process was called so far.
RECURSIVE VisitNodes(_, _, _, _, _, _)
VisitNodes(g, sorted, k, called, chunk_start, chunk_end) ==
    IF k > Len(sorted)
    THEN [graph |-> g, called |-> called, result |-> ReadOutput(g)]
    ELSE LET node_id == sorted[k]
             i == get_node(g, node_id)
         IN  IF i = 0
             THEN VisitNodes(g, sorted, k + 1, called, chunk_start, chunk_end)
             ELSE LET fed == PassInputs(g.nodes[i], input_values(g, node_id), 1)
                      p == node_process(fed, chunk_start, chunk_end)
                      g2 == [g EXCEPT !.nodes[i] = p.node]
                  IN  IF p.ok
                      THEN VisitNodes(g2, sorted, k + 1, Append(called, node_id),
                                      chunk_start, chunk_end)
                      ELSE [graph |-> g2, called |-> Append(called, node_id),
                            result |-> [ok |-> FALSE, err |-> "NodeInputTypeError", len |-> 0]]

\* The sorted nodes taken from the last to the first.
NodesToVisitReversed(sort) ==
    IF sort.ok THEN [k \in DOMAIN sort.sorted |-> sort.sorted[Len(sort.sorted) + 1 - k]]
    ELSE <<>>

\* The nodes to visit after the sort: none when the sort failed (the ? operator).
NodesToVisit(sort) == IF sort.ok THEN sort.sorted ELSE <<>>

process(g, chunk_start, chunk_end, order) ==
    LET sort == topological_sort(g, order)
    IN  IF ~sort.ok
        THEN [graph |-> g, called |-> <<>>,
              result |-> [ok |-> FALSE, err |-> "Cycle detected", len |-> 0]]
        ELSE VisitNodes(g, NodesToVisit(sort), 1, <<>>, chunk_start, chunk_end)

----------------------------------------------------------------------------
(* Beat / sample math: audio_utils/duration.rs *)

CHUNK_BEATS == 2

\* An exact fraction num/den with den > 0, in lowest terms.
RECURSIVE Gcd(_, _)
Gcd(a, b) == IF b = 0 THEN a ELSE Gcd(b, a % b)

Abs(x) == IF x < 0 THEN -x ELSE x

Fraction(num, den) ==
    LET g == Gcd(Abs(num), den)
    IN  [num |-> num \div g, den |-> den \div g]

FracAdd(a, b) == Fraction(a.num * b.den + b.num * a.den, a.den * b.den)
FracSubInt(a, n) == Fraction(a.num - n * a.den, a.den)
FracFloor(a) == a.num \div a.den

\* f32::round on a non-negative num/den: nearest integer, halves away from zero.
Round(num, den) == (2 * num + den) \div (2 * den)

beats_as_samples(spb, beats) == Round(beats * spb.num, spb.den)

Min(a, b) == IF a < b THEN a ELSE b
Max(a, b) == IF a > b THEN a ELSE b

----------------------------------------------------------------------------
(* AudioSource: buffer/source.rs.  Samples are integers. *)

Zeros(length) == [k \in 1..length |-> 0]

AudioSourceNew(sample_rate, channels) ==
    [sample_rate |-> sample_rate, channels |-> channels,
     data |-> [c \in 1..channels |-> <<>>]]

AudioSourceZeros(sample_rate, channels, length) ==
    [sample_rate |-> sample_rate, channels |-> channels,
     data |-> [c \in 1..channels |-> Zeros(length)]]

\* Vec::resize(n, 0.0) when the channel is shorter than n.
ExtendTo(ch, n) == IF Len(ch) < n THEN ch \o Zeros(n - Len(ch)) ELSE ch

\* self[offset + k] += other[k] for every k.
AddSamplesAtStart(ch, other, offset) ==
    [k \in 1..Len(ch) |-> IF k <= Len(other) THEN ch[k] + other[k] ELSE ch[k]]
AddSamples(ch, other, offset) ==
    [k \in 1..Len(ch) |->
        IF k > offset /\ k <= offset + Len(other) THEN ch[k] + other[k - offset] ELSE ch[k]]

\* The loop of mix_at over the channels of other, from channel c (1-based) on.
RECURSIVE MixChannels(_, _, _, _)
MixChannels(self, other, offset, c) ==
    IF c > Len(other.data)
    THEN self
    ELSE LET oc == other.data[c]
             grown == IF c - 1 >= self.channels
                      THEN [self EXCEPT !.data = Append(@, Zeros(offset + Len(oc))),
                                        !.channels = @ + 1]
                      ELSE [self EXCEPT !.data[c] = ExtendTo(@, offset + Len(oc))]
         IN  MixChannels([grown EXCEPT !.data[c] = AddSamples(@, oc, offset)],
                         other, offset, c + 1)

mix_at(self, other, offset) == MixChannels(self, other, offset, 1)

samples(source) == Len(source.data[1])

----------------------------------------------------------------------------
(* Regions: mixing/region/buffer_region.rs, mixing/traits/region.rs *)

NoSource == [some |-> FALSE]
SomeSource(source) == [some |-> TRUE, source |-> source]

\* A region as BufferTrack::add_region stores it: BufferRegion::new(name, source,
\* tempo), then set_start_time(at), set_duration(duration), set_id(id).
BufferRegion(id, source, tempo, at, duration) ==
    [id |-> id,
     start_time |-> at,
     duration |-> duration,
     samples_per_beat |-> IF source.some
                          THEN Fraction(source.source.sample_rate * 60, tempo)
                          ELSE Fraction(0, 1),
     source |-> source]

end_time(region) == region.start_time + region.duration

\* The chunk from start to end and the region have a beat in common.
is_active_atOverlapping(region, start, end) ==
    start <= end_time(region) /\ end >= region.start_time

is_active_at(region, start, end) ==
    \/ (start >= region.start_time /\ start <= end_time(region))
    \/ (end >= region.start_time /\ end <= end_time(region))

----------------------------------------------------------------------------
(* BufferTrack: mixing/track/buffer_track.rs *)

None == [some |-> FALSE]
Some(x) == [some |-> TRUE, value |-> x]

\* BufferTrack::new(name, channels): the graph is Graph::new(input node).
NewBufferTrack(channels) ==
    [id |-> 0,
     graph |-> NewGraph(1, 2),
     channels |-> channels,
     regions |-> <<>>,
     rendered_data |-> None,
     resamplers |-> <<>>,
     residual_samples |-> Fraction(0, 1),
     render_error |-> None]

\* The smallest id that no region of the track uses.
generate_region_id(track) ==
    CHOOSE id \in 0..Len(track.regions) :
        /\ \A i \in DOMAIN track.regions : track.regions[i].id # id
        /\ \A smaller \in 0..(id - 1) :
              \E i \in DOMAIN track.regions : track.regions[i].id = smaller

add_region(track, source, tempo, at, duration) ==
    [track EXCEPT !.regions =
        Append(@, BufferRegion(generate_region_id(track), source, tempo, at, duration))]

RECURSIVE MaxEndTime(_, _)
MaxEndTime(regions, k) ==
    IF k > Len(regions) THEN 0
    ELSE Max(end_time(regions[k]), MaxEndTime(regions, k + 1))

track_duration(track) == MaxEndTime(track.regions, 1)

\* AudioResampler::new(chunk_size)
AudioResampler(chunk_size) == [chunk_size |-> chunk_size]

\* Vec::resize_with(n, f): truncate to n, or append f() until the length is n.
ResizeWith(vec, n, fresh) ==
    IF Len(vec) >= n THEN SubSeq(vec, 1, n)
    ELSE vec \o [k \in 1..(n - Len(vec)) |-> fresh]

track_prepare(track, chunk_size, sample_rate) ==
    [track EXCEPT
        !.resamplers =
            ResizeWith(@, Len(track.regions), AudioResampler(sample_rate \div 100))
            \o [k \in 1..Len(track.regions) |->
                   AudioResampler(beats_as_samples(track.regions[k].samples_per_beat,
                                                   track.regions[k].start_time))],
        !.residual_samples = Fraction(0, 1)]

\* AudioResampler::process when the rates are equal: the input is returned as is.
\* For unequal rates the FFT primitive is outside the model; only the length of
\* its output is kept, as the input length scaled by the rate ratio.
resample(chunk, output_sample_rate) ==
    IF chunk.sample_rate = output_sample_rate
    THEN chunk
    ELSE [sample_rate |-> output_sample_rate, channels |-> chunk.channels,
          data |-> [c \in 1..Len(chunk.data) |->
                      Zeros(Round(Len(chunk.data[c]) * output_sample_rate,
                                  chunk.sample_rate))]]

\* The slice bounds computed for one region with a source (lines 228-262).
SliceBounds(residual, region, playhead, chunk_size) ==
    LET spb == region.samples_per_beat
        clipped_samples == Round(region.duration * spb.num, spb.den)
        actual_chunk_size == Fraction(spb.num * chunk_size, spb.den)
        rounded_chunk_size == beats_as_samples(spb, chunk_size)
        residual1 == FracSubInt(FracAdd(residual, actual_chunk_size), rounded_chunk_size)
        region_chunk_size == IF residual1.num > 0
                             THEN rounded_chunk_size + FracFloor(residual1)
                             ELSE rounded_chunk_size
        residual2 == IF residual1.num > 0
                     THEN FracSubInt(residual1, FracFloor(residual1))
                     ELSE residual1
        region_start == beats_as_samples(spb, region.start_time)
        region_playhead == beats_as_samples(spb, playhead)
        start_sample == Max(region_playhead - region_start, 0)
        end_sample == Min(Min(Max(start_sample + region_chunk_size, 0), clipped_samples),
                          samples(region.source.source))
    IN  [start_sample |-> start_sample, end_sample |-> end_sample, residual |-> residual2]

\* Lines 264-280 for one region with a source: the slice between the bounds b,
\* the region's resampler, and the mix into the chunk.
RenderSlice(track, st, region, region_index, b, sample_rate) ==
    LET src == region.source.source
        sliced == Append(st.rendered,
                         [id |-> region.id,
                          start_sample |-> b.start_sample,
                          end_sample |-> b.end_sample,
                          resampler |-> region_index,
                          source_samples |-> samples(src)])
    IN  IF \/ b.start_sample > b.end_sample
           \/ Len(src.data) < track.channels
           \/ region_index + 1 > Len(track.resamplers)
        THEN [st EXCEPT !.panic = TRUE, !.residual = b.residual,
                        !.rendered = sliced]
        ELSE LET chunk == [sample_rate |-> src.sample_rate,
                           channels |-> track.channels,
                           data |-> [c \in 1..track.channels |->
                                       SubSeq(src.data[c], b.start_sample + 1,
                                              b.end_sample)]]
             IN  [st EXCEPT !.mixed = mix_at(@, resample(chunk, sample_rate), 0),
                            !.residual = b.residual,
                            !.rendered = sliced]

\* The body of the region loop for the region_index-th (0-based) active region.
\* st holds mixed, residual_samples and whether an index went out of range (panic);
\* st.rendered lists, for each region that reached the slice, its id, the index
\* of the resampler used for it and the bounds of the slice.
RenderRegion(track, st, region, region_index, playhead, chunk_size, sample_rate) ==
    IF st.panic \/ ~region.source.some
    THEN st
    ELSE RenderSlice(track, st, region, region_index,
                     SliceBounds(st.residual, region, playhead, chunk_size),
                     sample_rate)

RECURSIVE RegionLoop(_, _, _, _, _, _, _)
RegionLoop(track, st, active, k, playhead, chunk_size, sample_rate) ==
    IF k > Len(active) THEN st
    ELSE RegionLoop(track,
                    RenderRegion(track, st, active[k], k - 1, playhead, chunk_size,
                                 sample_rate),
                    active, k + 1, playhead, chunk_size, sample_rate)

\* The zero buffer stored when graph.process fails (lines 297-304).
ErrorChunk(sample_rate, channels, playhead_samples, chunk_size_samples) ==
    AudioSourceZeros(sample_rate, channels, playhead_samples + chunk_size_samples)

\* What render_chunk_at stores as rendered_data (line 307).
StoredRenderedData(processed) == Some(processed)

\* Lines 297-307: what the call leaves in the track, given the state st of the
\* region loop and the outcome p of graph.process.
StoreChunk(track, active, st, p, sample_rate, playhead_samples, chunk_size_samples) ==
    LET processed == IF p.result.ok
                     THEN AudioSourceZeros(sample_rate, track.channels, p.result.len)
                     ELSE ErrorChunk(sample_rate, track.channels, playhead_samples,
                                     chunk_size_samples)
    IN  [panic |-> st.panic,
         graph_ok |-> p.result.ok,
         active |-> [k \in DOMAIN active |-> active[k].id],
         rendered |-> st.rendered,
         mixed |-> st.mixed,
         track |-> [track EXCEPT
                       !.residual_samples = st.residual,
                       !.graph = p.graph,
                       !.render_error = IF p.result.ok THEN @ ELSE Some(p.result.err),
                       !.rendered_data = StoredRenderedData(processed)]]

\* Lines 283-295: the mixed chunk goes to the input node and the graph runs.
ProcessChunk(track, active, st, sample_rate, playhead_samples, chunk_size_samples, order) ==
    LET i == get_node(track.graph, track.graph.input_node)
        fed == IF i = 0 THEN track.graph
               ELSE [track.graph EXCEPT !.nodes[i] =
                        set_input(@, "audio", BufferValue(samples(st.mixed)))]
    IN  StoreChunk(track, active, st,
                   process(fed, playhead_samples, playhead_samples + chunk_size_samples,
                           order),
                   sample_rate, playhead_samples, chunk_size_samples)

\* render_chunk_at; order resolves the HashMap iteration inside topological_sort.
render_chunk_at(track, playhead, chunk_size, sample_rate, spb, order) ==
    LET chunk_size_samples == beats_as_samples(spb, chunk_size)
        active == SelectSeq(track.regions,
                            LAMBDA r : is_active_at(r, playhead, playhead + chunk_size))
    IN  ProcessChunk(track, active,
                     RegionLoop(track,
                                [mixed |-> AudioSourceZeros(sample_rate, track.channels,
                                                            chunk_size_samples),
                                 residual |-> track.residual_samples,
                                 panic |-> FALSE,
                                 rendered |-> <<>>],
                                active, 1, playhead, chunk_size, sample_rate),
                     sample_rate, beats_as_samples(spb, playhead), chunk_size_samples,
                     order)

UnknownTrackError(track_id) == [error |-> "UnknownTrackError", track_id |-> track_id]

rendered_data(track) ==
    IF track.rendered_data.some
    THEN [ok |-> TRUE, data |-> track.rendered_data.value]
    ELSE [ok |-> FALSE,
          err |-> IF track.render_error.some
                  THEN [error |-> track.render_error.value]
                  ELSE UnknownTrackError(track.id)]

\* impl Clone for BufferTrack
clone(track) ==
    [track EXCEPT !.rendered_data = None, !.resamplers = <<>>]

----------------------------------------------------------------------------
(* Mixer: mixing/mixer.rs *)

\* Mixer::new(tempo, sample_rate, channels)
NewMixer(tempo, sample_rate, channels) ==
    [tracks |-> <<>>, tempo |-> tempo, channels |-> channels,
     sample_rate |-> sample_rate, playhead_beats |-> 0]

samples_per_beat(m) == Fraction(m.sample_rate * 60, m.tempo)

generate_track_idByCount(m) == Len(m.tracks)
generate_track_id(m) ==
    CHOOSE id \in 0..Len(m.tracks) :
        /\ \A i \in DOMAIN m.tracks : m.tracks[i].id # id
        /\ \A smaller \in 0..(id - 1) : \E i \in DOMAIN m.tracks : m.tracks[i].id = smaller

add_track(m, track) ==
    [m EXCEPT !.tracks = Append(@, [track EXCEPT !.id = generate_track_id(m)])]

remove_track(m, id) == [m EXCEPT !.tracks = SelectSeq(@, LAMBDA t : t.id # id)]

mixer_prepare(m) ==
    [m EXCEPT !.tracks =
        [i \in 1..Len(m.tracks) |-> track_prepare(m.tracks[i], CHUNK_BEATS, m.sample_rate)]]

RECURSIVE MaxTrackDuration(_, _)
MaxTrackDuration(tracks, k) ==
    IF k > Len(tracks) THEN 0
    ELSE Max(track_duration(tracks[k]), MaxTrackDuration(tracks, k + 1))

duration(m) == MaxTrackDuration(m.tracks, 1)

\* The locals of Mixer::mix when no call is running.
NoFrame ==
    [at |-> 0, chunk_size |-> 0, duration |-> 0, track_index |-> 0,
     start_sample |-> 0, end_sample |-> 0, sample |-> 0, channel |-> 0]

\* No Mixer::mix call has been made.
MixerIdle ==
    /\ output = AudioSourceNew(0, 0)
    /\ frame = NoFrame
    /\ pc = "idle"
    /\ returned = None
    /\ log = <<>>
    /\ calls = 0

----------------------------------------------------------------------------
(* Value: graph/value/value.rs.  Samples are integers. *)

Float(sample) == [sample |-> sample, tag |-> "Float"]
Array(items) == [tag |-> "Array", items |-> items]

\* Type::Float and Type::Array(Box<Type>)
TypeFloat == [kind |-> "Float"]
TypeArray(of) == [kind |-> "Array", of |-> of]

\* A call that panicked (an index out of range).
Panic == [some |-> FALSE, panic |-> TRUE]

RECURSIVE get_type(_)
get_type(v) ==
    IF v.tag = "Float" THEN TypeFloat
    ELSE TypeArray(IF Len(v.items) > 0 THEN get_type(v.items[1]) ELSE TypeFloat)

RECURSIVE get_shape(_)
get_shape(v) ==
    IF v.tag = "Float" THEN <<>>
    ELSE <<Len(v.items)>> \o (IF Len(v.items) > 0 THEN get_shape(v.items[1]) ELSE <<>>)

\* vec![x; n]
Repeat(x, n) == [k \in 1..n |-> x]

RECURSIVE resize_val(_, _)
resize_val(v, shape) ==
    IF v.tag = "Float" THEN Some(v)
    ELSE IF shape = <<>> THEN Panic
    ELSE IF Len(v.items) # shape[1] /\ Len(v.items) # 1 THEN None
    ELSE LET resized == IF Len(v.items) = shape[1] THEN v.items
                        ELSE Repeat(v.items[1], shape[1])
             rest == Tail(shape)
             inner == [k \in DOMAIN resized |-> resize_val(resized[k], rest)]
         IN  IF \E k \in DOMAIN inner : ~inner[k].some
             THEN inner[CHOOSE k \in DOMAIN inner :
                           ~inner[k].some /\ \A j \in 1..(k - 1) : inner[j].some]
             ELSE Some(Array([k \in DOMAIN inner |-> inner[k].value]))

\* `array` wrapped once per remaining dimension of the shape, from the back.
RECURSIVE WrapFloat(_, _)
WrapFloat(array, dims) ==
    IF dims = <<>> THEN array
    ELSE WrapFloat(Repeat(Array(array), dims[Len(dims)]), SubSeq(dims, 1, Len(dims) - 1))

\* new_vec = vec![Value::Array(new_vec)], n times.
RECURSIVE WrapOuter(_, _)
WrapOuter(new_vec, n) == IF n = 0 THEN new_vec ELSE WrapOuter(<<Array(new_vec)>>, n - 1)

reshape(v, shape) ==
    IF v.tag = "Float"
    THEN IF shape # <<>>
         THEN Some(Array(WrapFloat(Repeat(v, shape[Len(shape)]),
                                   SubSeq(shape, 1, Len(shape) - 1))))
         ELSE Some(v)
    ELSE LET vec_shape == get_shape(v)
         IN  IF Len(vec_shape) > Len(shape) THEN None
             ELSE resize_val(Array(WrapOuter(v.items, Len(shape) - Len(vec_shape))), shape)

\* One step of the target shape loop of apply_op (lines 91-100).
MergeShape(target_shape, shape) ==
    IF Len(shape) > Len(target_shape) THEN shape
    ELSE IF Len(shape) = Len(target_shape)
    THEN [i \in DOMAIN shape |-> Max(shape[i], target_shape[i])]
    ELSE target_shape

RECURSIVE TargetShape(_, _, _)
TargetShape(shapes, k, target_shape) ==
    IF k > Len(shapes) THEN target_shape
    ELSE TargetShape(shapes, k + 1, MergeShape(target_shape, shapes[k]))

\* The operation f of the calls explored: the sum of the samples it is given.
RECURSIVE SumOf(_)
SumOf(xs) == IF xs = <<>> THEN 0 ELSE Head(xs) + SumOf(Tail(xs))

\* The f32 results of the closures of value_impl.rs, as exact fractions: x / 0 is
\* an infinity (den = 0, num # 0) and 0 / 0 and x % 0 are NaN (den = 0, num = 0).
NaN == [num |-> 0, den |-> 0]
Infinity == [num |-> 1, den |-> 0]
Zero == [num |-> 0, den |-> 1]
Quotient(x, y) == IF y # 0 THEN Fraction(x, y) ELSE IF x = 0 THEN NaN ELSE Infinity
Remainder(x, y) == IF y # 0 THEN Fraction(x % y, 1) ELSE NaN

\* The call f(&samples) for the closures passed to apply_op: "sum" (test.rs),
\* "div" and "rem" (|v| v[0] / v[1], |v| v[0] % v[1]) and "checked_div",
\* "checked_rem" (the same behind if v[1] == 0.0 { 0.0 }).  v[1] on a slice of
\* one sample panics.
CallClosure(f, xs) ==
    IF f = "sum" THEN Some(SumOf(xs))
    ELSE IF Len(xs) < 2 THEN Panic
    ELSE IF f = "checked_div"
    THEN Some(IF xs[2] = 0 THEN Zero ELSE Quotient(xs[1], xs[2]))
    ELSE IF f = "checked_rem"
    THEN Some(IF xs[2] = 0 THEN Zero ELSE Remainder(xs[1], xs[2]))
    ELSE IF f = "div" THEN Some(Quotient(xs[1], xs[2]))
    ELSE Some(Remainder(xs[1], xs[2]))

RECURSIVE recurse_op(_, _)
RECURSIVE RecurseLoop(_, _, _, _)

\* The loop of recurse_op over the positions of the arrays (lines 161-179).
RecurseLoop(args, k, result, f) ==
    IF \E a \in DOMAIN args : k > Len(args[a].items)
    THEN Some(Array(result))
    ELSE LET operated == recurse_op([a \in DOMAIN args |-> args[a].items[k]], f)
         IN  IF operated = Panic THEN Panic
             ELSE IF ~operated.some
             THEN Some(Array(result))
             ELSE RecurseLoop(args, k + 1, Append(result, operated.value), f)

recurse_op(args, f) ==
    IF args = <<>> THEN None
    ELSE IF \E a \in DOMAIN args : get_type(args[a]) # get_type(args[1]) THEN None
    ELSE IF \E a \in DOMAIN args : get_shape(args[a]) # get_shape(args[1]) THEN None
    ELSE IF get_type(args[1]) = TypeFloat
    THEN LET called == CallClosure(f, [a \in DOMAIN args |-> args[a].sample])
         IN  IF called = Panic THEN Panic ELSE Some(Float(called.value))
    ELSE RecurseLoop(args, 1, <<>>, f)

\* The arguments that could be reshaped (filter_map, lines 103-107).
KeepReshaped(reshaped) == SelectSeq(reshaped, LAMBDA r : r.some)

apply_op(args, f) ==
    LET target_shape == TargetShape([a \in DOMAIN args |-> get_shape(args[a])], 1, <<>>)
        reshaped == [a \in DOMAIN args |-> reshape(args[a], target_shape)]
        kept == KeepReshaped(reshaped)
    IN  IF \E a \in DOMAIN reshaped : reshaped[a] = Panic
        THEN Panic
        ELSE recurse_op([k \in DOMAIN kept |-> kept[k].value], f)

from_buffer(buffer) ==
    Array([c \in DOMAIN buffer |-> Array([k \in DOMAIN buffer[c] |-> Float(buffer[c][k])])])

\* The sample as_buffer takes from an element of a channel (lines 289-292).
SampleOfZero(v) == 0
SampleOf(v) == IF v.tag = "Float" THEN v.sample ELSE 0

\* The loop of as_buffer over the channels (lines 274-297).
RECURSIVE ChannelsOf(_, _, _)
ChannelsOf(vector, k, buffer) ==
    IF k > Len(vector) THEN [ok |-> TRUE, buffer |-> buffer]
    ELSE IF vector[k].tag = "Float"
    THEN [ok |-> FALSE, received_type |-> TypeArray(TypeFloat)]
    ELSE ChannelsOf(vector, k + 1,
                    Append(buffer,
                           [i \in DOMAIN vector[k].items |-> SampleOf(vector[k].items[i])]))

as_buffer(v) ==
    IF v.tag = "Float"
    THEN [ok |-> FALSE, received_type |-> TypeFloat]
    ELSE ChannelsOf(v.items, 1, <<>>)

----------------------------------------------------------------------------
(* The graph as a state machine: the public operations of Graph *)

NoResult == [called |-> FALSE]

\* No call has been made on an object under test.
NoCall == [op |-> "none"]
UnitIdle ==
    /\ lastCall = NoCall
    /\ buffer_track = NewBufferTrack(2)
    /\ history = <<>>
    /\ audio_source = AudioSourceNew(0, 0)
    /\ operands = <<>>

GraphInit ==
    /\ graph = NewGraph(1, 2)
    /\ sortResult = NoResult
    /\ procResult = NoResult
    /\ ops = 0
    /\ mixer = NewMixer(120, 2, 2)
    /\ MixerIdle
    /\ UnitIdle

\* One more operation is called, within the explored length.
Call ==
    /\ ops < MaxOps
    /\ ops' = ops + 1

AddNode ==
    /\ Call
    /\ \E id \in NodeIds :
          graph' = add_node(graph, NewNode(id, "EmptyNode"))
    /\ sortResult' = NoResult
    /\ procResult' = NoResult
    /\ UNCHANGED mixVars
    /\ UNCHANGED unitVars

RemoveNode ==
    /\ Call
    /\ \E id \in NodeIds : graph' = remove_node(graph, id)
    /\ sortResult' = NoResult
    /\ procResult' = NoResult
    /\ UNCHANGED mixVars
    /\ UNCHANGED unitVars

Connect ==
    /\ Call
    /\ \E from \in NodeIds, to \in NodeIds, from_param \in FromPorts, to_param \in ToPorts :
          graph' = connect(graph, from, from_param, to, to_param)
    /\ sortResult' = NoResult
    /\ procResult' = NoResult
    /\ UNCHANGED mixVars
    /\ UNCHANGED unitVars

Disconnect ==
    /\ Call
    /\ \E from \in NodeIds, to \in NodeIds, from_param \in FromPorts, to_param \in ToPorts :
          graph' = disconnect(graph, from, from_param, to, to_param)
    /\ sortResult' = NoResult
    /\ procResult' = NoResult
    /\ UNCHANGED mixVars
    /\ UNCHANGED unitVars

TopologicalSort ==
    /\ Call
    /\ \E order \in QueueOrders(graph) :
          sortResult' = [called |-> TRUE, res |-> topological_sort(graph, order)]
    /\ UNCHANGED <<graph, procResult>>
    /\ UNCHANGED mixVars
    /\ UNCHANGED unitVars

Process ==
    /\ Call
    /\ \E order \in QueueOrders(graph) :
          LET r == process(graph, 0, GraphChunkLen, order)
          IN  /\ graph' = r.graph
              /\ procResult' = [called |-> TRUE, nodes |-> r.called, res |-> r.result]
    /\ UNCHANGED sortResult
    /\ UNCHANGED mixVars
    /\ UNCHANGED unitVars

GraphNext ==
    \/ AddNode
    \/ RemoveNode
    \/ Connect
    \/ Disconnect
    \/ TopologicalSort
    \/ Process

GraphSpec == GraphInit /\ [][GraphNext]_graphVars

----------------------------------------------------------------------------
(* The edits of a graph, each kept with its arguments and the graph it was *)
(* called on                                                               *)

EditInit ==
    /\ graph = NewGraph(1, 2)
    /\ sortResult = NoResult
    /\ procResult = NoResult
    /\ ops = 0
    /\ mixer = NewMixer(120, 2, 2)
    /\ MixerIdle
    /\ UnitIdle

\* One more edit is called, within the explored length.
Edit(op, args) ==
    /\ ops < MaxEdits
    /\ ops' = ops + 1
    /\ lastCall' = [op |-> op, args |-> args, before |-> graph]
    /\ UNCHANGED <<sortResult, procResult>>
    /\ UNCHANGED mixVars
    /\ UNCHANGED <<buffer_track, history, audio_source, operands>>

EditAddNode ==
    \E id \in NodeIds :
        /\ Edit("add_node", <<id>>)
        /\ graph' = add_node(graph, NewNode(id, "EmptyNode"))

EditRemoveNode ==
    \E id \in NodeIds :
        /\ Edit("remove_node", <<id>>)
        /\ graph' = remove_node(graph, id)

EditConnect ==
    \E from \in NodeIds, to \in NodeIds, from_param \in FromPorts, to_param \in ToPorts :
        /\ Edit("connect", <<from, from_param, to, to_param>>)
        /\ graph' = connect(graph, from, from_param, to, to_param)

EditDisconnect ==
    \E from \in NodeIds, to \in NodeIds, from_param \in FromPorts, to_param \in ToPorts :
        /\ Edit("disconnect", <<from, from_param, to, to_param>>)
        /\ graph' = disconnect(graph, from, from_param, to, to_param)

EditNext ==
    \/ EditAddNode
    \/ EditRemoveNode
    \/ EditConnect
    \/ EditDisconnect

EditSpec == EditInit /\ [][EditNext]_<<graph, ops, lastCall>>

----------------------------------------------------------------------------
(* Properties of the graph *)

Successors(g, S) ==
    {g.connections[i].to : i \in {j \in DOMAIN g.connections : g.connections[j].from \in S}}

RECURSIVE ReachableFrom(_, _, _)
ReachableFrom(g, S, k) ==
    IF k = 0 THEN S ELSE ReachableFrom(g, S \cup Successors(g, S), k - 1)

\* The connector relation (from -> to) has a cycle (a self-loop included).
HasCycle(g) ==
    \E i \in DOMAIN g.connections :
        g.connections[i].from \in
            ReachableFrom(g, {g.connections[i].to}, Len(g.connections))

NodeIdSet(g) == {g.nodes[i].id : i \in DOMAIN g.nodes}

Position(seq, x) == CHOOSE i \in DOMAIN seq : seq[i] = x

\* sorted holds every node id of g exactly once, every connector's from before its to.
IsTopologicalOrder(g, sorted) ==
    /\ \A n \in NodeIdSet(g) : Cardinality({i \in DOMAIN sorted : sorted[i] = n}) = 1
    /\ \A i \in DOMAIN sorted : sorted[i] \in NodeIdSet(g)
    /\ \A i \in DOMAIN g.connections :
          Position(sorted, g.connections[i].from) < Position(sorted, g.connections[i].to)

\* C1: on every graph whose connector relation is acyclic, topological_sort returns
\* Ok with a list that holds every node id exactly once and puts every connector's
\* from node before its to node.
C1_SortOfAcyclicGraphIsOrder ==
    (sortResult.called /\ ~HasCycle(graph)) =>
        (sortResult.res.ok /\ IsTopologicalOrder(graph, sortResult.res.sorted))

\* C2: on every graph whose connectors contain a cycle, topological_sort returns the
\* cycle error, and process returns that error without calling process on any node.
C2_CycleIsRejected ==
    /\ (sortResult.called /\ HasCycle(graph)) => ~sortResult.res.ok
    /\ (procResult.called /\ HasCycle(graph)) =>
          /\ ~procResult.res.ok
          /\ procResult.res.err = "Cycle detected"
          /\ procResult.nodes = <<>>

\* A cyclic graph of three nodes on which both topological_sort and process were called.
C2_Witness ==
    /\ HasCycle(graph)
    /\ Len(graph.nodes) = 3
    /\ sortResult.called
    /\ procResult.called

\* The ids of the nodes whose process was called by the last Graph::process.
CalledIds == {procResult.nodes[k] : k \in DOMAIN procResult.nodes}

\* Every connector into a processed node has its source processed earlier.
SourcesProcessedFirst ==
    \A i \in DOMAIN graph.connections :
        graph.connections[i].to \in CalledIds =>
            /\ graph.connections[i].from \in CalledIds
            /\ Position(procResult.nodes, graph.connections[i].from)
                  < Position(procResult.nodes, graph.connections[i].to)

\* Every output a source has on the port of a connector into a processed node
\* has reached the input of the target (set_input on one of its input ports).
OutputsPassedOn ==
    \A i \in DOMAIN graph.connections :
        LET c == graph.connections[i]
        IN  (/\ c.to \in CalledIds
             /\ c.from_param \in get_output_list(graph.nodes[get_node(graph, c.from)])
             /\ c.to_param \in get_input_list(graph.nodes[get_node(graph, c.to)]))
                => graph.nodes[get_node(graph, c.to)].input.some

ValidEndpoints(g, c) ==
    /\ get_node(g, c.from) # 0
    /\ get_node(g, c.to) # 0
    /\ c.from_param \in get_output_list(g.nodes[get_node(g, c.from)])
    /\ c.to_param \in get_input_list(g.nodes[get_node(g, c.to)])

\* C9: connect adds no connector when an endpoint is invalid (unknown from or to
\* node, from_port not an output of from, to_port not an input of to), hence every
\* stored connector has from_port among from's outputs and to_port among to's inputs.
C9_ConnectRejectsInvalidEndpoints ==
    /\ [][Len(graph'.connections) > Len(graph.connections) =>
            ValidEndpoints(graph, graph'.connections[Len(graph'.connections)])]_graphVars
    /\ [](\A i \in DOMAIN graph.connections : ValidEndpoints(graph, graph.connections[i]))

\* C10: after any sequence of add_node, remove_node, connect and disconnect calls
\* the connector relation is acyclic.
C10_ConnectorRelationAcyclic == ~HasCycle(graph)

\* C11: add_node refuses a node whose id is already used: after any sequence of
\* add_node calls no two nodes of the graph have the same id.
C11_NodeIdsAreDistinct ==
    \A i \in DOMAIN graph.nodes, j \in DOMAIN graph.nodes :
        i # j => graph.nodes[i].id # graph.nodes[j].id

\* The node ids and the connector endpoints of g.
IdsOf(nodes) == {nodes[i].id : i \in DOMAIN nodes}
EndpointsOf(connections) ==
    {connections[i].from : i \in DOMAIN connections} \cup
    {connections[i].to : i \in DOMAIN connections}

\* seq without the elements at the positions in dropped, in the same order.
Without(seq, dropped) ==
    LET kept(k) == Cardinality({i \in 1..k : i \notin dropped})
    IN  [k \in 1..kept(Len(seq)) |->
            seq[CHOOSE i \in DOMAIN seq : i \notin dropped /\ kept(i) = k]]

\* C12: remove_node(id) leaves the graph unchanged when id is the designated
\* input or output node; otherwise it removes exactly the nodes whose id is id
\* and the connectors whose from or to is id.  After any sequence of edits the
\* input and output node ids are ids of nodes of the graph, and so are the from
\* and to of every connector.
C12_RemoveNodeKeepsGraphClosed ==
    /\ lastCall.op = "remove_node" =>
          LET id == lastCall.args[1]
              b == lastCall.before
          IN  IF id = b.input_node \/ id = b.output_node
              THEN graph = b
              ELSE /\ graph.nodes =
                        Without(b.nodes, {i \in DOMAIN b.nodes : b.nodes[i].id = id})
                   /\ graph.connections =
                        Without(b.connections,
                                {i \in DOMAIN b.connections :
                                    b.connections[i].from = id \/ b.connections[i].to = id})
                   /\ graph.input_node = b.input_node
                   /\ graph.output_node = b.output_node
    /\ graph.input_node \in IdsOf(graph.nodes)
    /\ graph.output_node \in IdsOf(graph.nodes)
    /\ EndpointsOf(graph.connections) \subseteq IdsOf(graph.nodes)

\* remove_node has just removed a node that had a connector, and the connector
\* with it.
C12_Witness ==
    /\ lastCall.op = "remove_node"
    /\ lastCall.args[1] \in IdsOf(lastCall.before.nodes)
    /\ lastCall.args[1] \in EndpointsOf(lastCall.before.connections)
    /\ Len(graph.nodes) < Len(lastCall.before.nodes)
    /\ Len(graph.connections) < Len(lastCall.before.connections)

\* C13: connect called again with a 4-tuple the graph already holds leaves the
\* graph as it was, a further connect with the arguments of the last one changes
\* nothing, and the graph never holds two connectors with the same 4-tuple.
C13_ConnectIsIdempotent ==
    /\ lastCall.op = "connect" =>
          LET a == lastCall.args
          IN  /\ (\E i \in DOMAIN lastCall.before.connections :
                        lastCall.before.connections[i] = Connector(a[1], a[2], a[3], a[4]))
                    => graph = lastCall.before
              /\ connect(graph, a[1], a[2], a[3], a[4]) = graph
    /\ \A i \in DOMAIN graph.connections, j \in DOMAIN graph.connections :
          i # j => graph.connections[i] # graph.connections[j]

\* connect has just been called with the 4-tuple of a connector that an earlier
\* connect call had stored.
C13_Witness ==
    /\ lastCall.op = "connect"
    /\ \E i \in DOMAIN lastCall.before.connections :
          lastCall.before.connections[i] =
              Connector(lastCall.args[1], lastCall.args[2], lastCall.args[3],
                        lastCall.args[4])
    /\ Len(graph.connections) = 1

----------------------------------------------------------------------------
(* The mixer as a state machine: set-up calls, then one Mixer::mix call    *)
(* followed step by step                                                   *)

\* (tempo, sample_rate, channels) of the mixers explored.
MixerConfigs == {<<120, 2, 2>>, <<120, 1, 1>>, <<60, 1, 2>>}

\* The `at` arguments of Mixer::mix explored.
MixStarts == {0, CHUNK_BEATS}

\* The graphs of the tracks explored: as constructed, with the input node wired
\* to the output node, and with a connection back that closes a cycle.
TrackGraphs ==
    LET wired == connect(NewGraph(1, 2), 1, "output", 2, "buffer")
    IN  {NewGraph(1, 2), wired, connect(wired, 2, "output", 1, "input")}

\* A source whose samples are 1, 2, 3 on every channel.
RampSource(sample_rate, channels) ==
    [sample_rate |-> sample_rate, channels |-> channels,
     data |-> [c \in 1..channels |-> <<1, 2, 3>>]]

\* The region lists of the tracks explored, as <<source, at, duration>> triples.
RegionLists(m) ==
    LET ramp == SomeSource(RampSource(m.sample_rate, m.channels))
    IN  {<< <<NoSource, 0, 1>> >>,
         << <<NoSource, 0, 3>> >>,
         << <<ramp, 0, 2>> >>,
         << <<NoSource, 0, 1>>, <<ramp, 2, 2>> >>}

RECURSIVE AddRegions(_, _, _, _)
AddRegions(track, tempo, regions, k) ==
    IF k > Len(regions) THEN track
    ELSE AddRegions(add_region(track, regions[k][1], tempo, regions[k][2], regions[k][3]),
                    tempo, regions, k + 1)

\* The tracks handed to Mixer::add_track: BufferTrack::new with the mixer's
\* channel count, then its graph edited and its regions added.
Tracks(m) ==
    {AddRegions([NewBufferTrack(m.channels) EXCEPT !.graph = g], m.tempo, regions, 1) :
        g \in TrackGraphs, regions \in RegionLists(m)}

MixInit ==
    /\ \E config \in MixerConfigs : mixer = NewMixer(config[1], config[2], config[3])
    /\ MixerIdle
    /\ graph = NewGraph(1, 2)
    /\ sortResult = NoResult
    /\ procResult = NoResult
    /\ ops = 0
    /\ UnitIdle

\* One more set-up operation is called, within the explored length.
SetUp ==
    /\ pc = "idle"
    /\ calls < MaxCalls
    /\ calls' = calls + 1

AddTrack ==
    /\ SetUp
    /\ \E track \in Tracks(mixer) : mixer' = add_track(mixer, track)
    /\ UNCHANGED <<output, frame, pc, returned, log>>
    /\ UNCHANGED graphVars
    /\ UNCHANGED unitVars

RemoveTrack ==
    /\ SetUp
    /\ \E i \in DOMAIN mixer.tracks : mixer' = remove_track(mixer, mixer.tracks[i].id)
    /\ UNCHANGED <<output, frame, pc, returned, log>>
    /\ UNCHANGED graphVars
    /\ UNCHANGED unitVars

Prepare ==
    /\ SetUp
    /\ mixer' = mixer_prepare(mixer)
    /\ UNCHANGED <<output, frame, pc, returned, log>>
    /\ UNCHANGED graphVars
    /\ UNCHANGED unitVars

\* Mixer::mix, lines 134-141: up to the first test of the while loop.
MixStart ==
    /\ pc = "idle"
    /\ \E at \in MixStarts :
          /\ mixer' = [mixer EXCEPT !.playhead_beats = at]
          /\ frame' = [NoFrame EXCEPT
                          !.at = at,
                          !.chunk_size = beats_as_samples(samples_per_beat(mixer),
                                                          CHUNK_BEATS),
                          !.duration = duration(mixer)]
    /\ output' = AudioSourceNew(mixer.sample_rate, mixer.channels)
    /\ pc' = "while"
    /\ UNCHANGED <<returned, log, calls>>
    /\ UNCHANGED graphVars
    /\ UNCHANGED unitVars

\* The condition of the while loop (line 143).
PlayheadBeforeOrAtEnd(playhead_beats, end) == playhead_beats <= end
PlayheadBeforeEnd(playhead_beats, end) == playhead_beats < end

\* The test of the while loop (line 143), and the return after it (line 165).
WhileTest ==
    /\ pc = "while"
    /\ IF PlayheadBeforeEnd(mixer.playhead_beats, frame.duration)
       THEN /\ pc' = "process_chunk"
            /\ frame' = [frame EXCEPT !.track_index = 1]
            /\ UNCHANGED returned
       ELSE /\ pc' = "done"
            /\ returned' = Some(output)
            /\ UNCHANGED frame
    /\ UNCHANGED <<mixer, output, log, calls>>
    /\ UNCHANGED graphVars
    /\ UNCHANGED unitVars

RenderEntry(track_index, playhead, r, chunk_size_samples) ==
    [op |-> "render_chunk_at", track |-> track_index, playhead |-> playhead,
     graph_ok |-> r.graph_ok,
     rendered_ok |-> rendered_data(r.track).ok,
     stored_samples |-> samples(r.track.rendered_data.value),
     chunk_size_samples |-> chunk_size_samples]

CallbackEntry(sample, channel, value, playhead, ret) ==
    [op |-> "callback", sample |-> sample, channel |-> channel, value |-> value,
     playhead |-> playhead, ret |-> ret]

\* The for loop of process_chunk has gone through all n tracks.
TracksRenderedFirstOnly(track_index, n) == track_index > 1
TracksRendered(track_index, n) == track_index > n

\* One iteration of the loop of process_chunk (lines 178-198).
RenderTrack ==
    /\ pc = "process_chunk"
    /\ ~TracksRendered(frame.track_index, Len(mixer.tracks))
    /\ LET i == frame.track_index
           spb == samples_per_beat(mixer)
       IN  \E order \in QueueOrders(mixer.tracks[i].graph) :
              LET r == render_chunk_at(mixer.tracks[i], mixer.playhead_beats,
                                       CHUNK_BEATS, mixer.sample_rate, spb, order)
                  rendered_track == rendered_data(r.track)
                  playhead_samples == beats_as_samples(spb, mixer.playhead_beats)
              IN  IF r.panic
                  THEN /\ pc' = "panic"
                       /\ UNCHANGED <<mixer, output, frame, log>>
                  ELSE /\ mixer' = [mixer EXCEPT !.tracks[i] = r.track]
                       /\ output' = IF rendered_track.ok
                                    THEN mix_at(output, rendered_track.data,
                                                playhead_samples)
                                    ELSE output
                       /\ log' = Append(log,
                                    RenderEntry(i, mixer.playhead_beats, r,
                                                beats_as_samples(spb, CHUNK_BEATS)))
                       /\ frame' = [frame EXCEPT !.track_index = i + 1]
                       /\ pc' = "process_chunk"
    /\ UNCHANGED <<returned, calls>>
    /\ UNCHANGED graphVars
    /\ UNCHANGED unitVars

\* Lines 148-152: the range of samples to stream, and the first index.
StartStreaming ==
    /\ pc = "process_chunk"
    /\ TracksRendered(frame.track_index, Len(mixer.tracks))
    /\ LET start_sample == beats_as_samples(samples_per_beat(mixer), mixer.playhead_beats)
       IN  frame' = [frame EXCEPT
                        !.start_sample = start_sample,
                        !.end_sample = Min(start_sample + frame.chunk_size,
                                           Len(output.data[1])),
                        !.sample = start_sample,
                        !.channel = 0]
    /\ pc' = "callback"
    /\ UNCHANGED <<mixer, output, returned, log, calls>>
    /\ UNCHANGED graphVars
    /\ UNCHANGED unitVars

\* The callback's answer ends the render.
StopRenderingNever(ok) == FALSE
StopRendering(ok) == ~ok

\* The nested for loops of lines 152-153: the index after (sample, channel).
NextStreamIndexSampleOnly(sample, channel, channels) ==
    [sample |-> sample + 1, channel |-> channel]
NextStreamIndex(sample, channel, channels) ==
    IF channel + 1 < channels
    THEN [sample |-> sample, channel |-> channel + 1]
    ELSE [sample |-> sample + 1, channel |-> 0]

\* One callback invocation (lines 154-156); ok is what the callback answers.
Callback ==
    /\ pc = "callback"
    /\ frame.sample < frame.end_sample
    /\ IF frame.sample >= Len(output.data[frame.channel + 1])
       THEN /\ pc' = "panic"
            /\ UNCHANGED <<frame, returned, log>>
       ELSE \E ok \in BOOLEAN :
              /\ log' = Append(log,
                           CallbackEntry(frame.sample, frame.channel,
                                         output.data[frame.channel + 1][frame.sample + 1],
                                         mixer.playhead_beats, ok))
              /\ IF StopRendering(ok)
                 THEN /\ pc' = "done"
                      /\ returned' = Some(output)
                      /\ UNCHANGED frame
                 ELSE LET next == NextStreamIndex(frame.sample, frame.channel,
                                                  mixer.channels)
                      IN  /\ frame' = [frame EXCEPT !.sample = next.sample,
                                                    !.channel = next.channel]
                          /\ pc' = "callback"
                          /\ UNCHANGED returned
    /\ UNCHANGED <<mixer, output, calls>>
    /\ UNCHANGED graphVars
    /\ UNCHANGED unitVars

\* The chunk has been streamed: line 161.
EndChunk ==
    /\ pc = "callback"
    /\ frame.sample >= frame.end_sample
    /\ mixer' = [mixer EXCEPT !.playhead_beats = @ + CHUNK_BEATS]
    /\ pc' = "while"
    /\ UNCHANGED <<output, frame, returned, log, calls>>
    /\ UNCHANGED graphVars
    /\ UNCHANGED unitVars

MixNext ==
    \/ AddTrack
    \/ RemoveTrack
    \/ Prepare
    \/ MixStart
    \/ WhileTest
    \/ RenderTrack
    \/ StartStreaming
    \/ Callback
    \/ EndChunk

MixSpec == MixInit /\ [][MixNext]_mixVars

----------------------------------------------------------------------------
(* Properties of the mixer *)

IsRender(e) == e.op = "render_chunk_at"
IsCallback(e) == e.op = "callback"

\* Some callback invocation of the Mixer::mix call answered false.
Cancelled == \E k \in DOMAIN log : IsCallback(log[k]) /\ ~log[k].ret

\* C3: once the callback has returned false, Mixer::mix makes no further
\* callback invocation and no further render_chunk_at call (the false answer
\* is the last call of the log), and it has returned the output buffer as
\* assembled up to that point.
C3_FalseStopsTheRender ==
    \A k \in DOMAIN log :
        (IsCallback(log[k]) /\ ~log[k].ret) =>
            /\ k = Len(log)
            /\ pc = "done"
            /\ returned = Some(output)

\* The callback answered false after some samples went through, while samples
\* of the chunk and a further chunk were still to come.
C3_Witness ==
    /\ pc = "done"
    /\ Len(log) > 2
    /\ IsCallback(log[Len(log)]) /\ ~log[Len(log)].ret
    /\ IsCallback(log[Len(log) - 1]) /\ log[Len(log) - 1].ret
    /\ frame.sample + 1 < frame.end_sample
    /\ mixer.playhead_beats + CHUNK_BEATS < frame.duration

\* C4: every callback invocation of a chunk comes after a render_chunk_at call
\* of that chunk on each track of the mixer, and every render_chunk_at call of
\* a later chunk comes after every callback invocation of an earlier chunk.
C4_RenderBeforeStream ==
    /\ \A k \in DOMAIN log :
          IsCallback(log[k]) =>
              \A i \in DOMAIN mixer.tracks :
                  \E j \in 1..(k - 1) :
                      /\ IsRender(log[j])
                      /\ log[j].playhead = log[k].playhead
                      /\ log[j].track = i
    /\ \A j \in DOMAIN log, k \in DOMAIN log :
          (IsRender(log[j]) /\ IsCallback(log[k]) /\ log[j].playhead > log[k].playhead)
              => j > k

\* Two tracks, and the second chunk is being streamed.
C4_Witness ==
    /\ Len(mixer.tracks) = 2
    /\ \E j \in DOMAIN log, k \in DOMAIN log :
          /\ IsCallback(log[j]) /\ IsCallback(log[k])
          /\ log[j].playhead < log[k].playhead

\* C5: within a chunk the callback receives the samples in sample-major,
\* channel-minor order: the first sample passed is channel 0 of the first index
\* of the chunk, and after channel c of index s comes channel c + 1 of index s,
\* or channel 0 of index s + 1 when c was the last channel.
C5_SampleMajorOrder ==
    \A k \in DOMAIN log :
        IsCallback(log[k]) =>
            IF k > 1 /\ IsCallback(log[k - 1])
            THEN /\ log[k].playhead = log[k - 1].playhead
                 /\ \/ /\ log[k - 1].channel + 1 < mixer.channels
                       /\ log[k].sample = log[k - 1].sample
                       /\ log[k].channel = log[k - 1].channel + 1
                    \/ /\ log[k - 1].channel + 1 = mixer.channels
                       /\ log[k].sample = log[k - 1].sample + 1
                       /\ log[k].channel = 0
            ELSE /\ log[k].channel = 0
                 /\ log[k].sample =
                       beats_as_samples(samples_per_beat(mixer), log[k].playhead)

\* Two channels, and two sample indices of a chunk have gone through.
C5_Witness ==
    /\ mixer.channels = 2
    /\ \E k \in DOMAIN log :
          /\ k + 3 <= Len(log)
          /\ \A d \in 0..3 : IsCallback(log[k + d])
          /\ log[k + 3].sample = log[k].sample + 1
          /\ log[k + 3].channel = 1

\* Number of callback invocations that passed a sample of the channel.
CallbackCount(channel) ==
    Cardinality({k \in DOMAIN log : IsCallback(log[k]) /\ log[k].channel = channel})

\* The playheads at + k * CHUNK_BEATS that lie before the end, in order.
RECURSIVE ChunkStarts(_, _)
ChunkStarts(at, end) ==
    IF at < end THEN <<at>> \o ChunkStarts(at + CHUNK_BEATS, end) ELSE <<>>

\* The playheads of the render_chunk_at calls made on the track at track_index.
RenderPlayheads(track_index) ==
    LET renders == SelectSeq(log, LAMBDA e : IsRender(e) /\ e.track = track_index)
    IN  [k \in DOMAIN renders |-> renders[k].playhead]

IsPrefix(s, t) == Len(s) <= Len(t) /\ s = SubSeq(t, 1, Len(s))

\* While Mixer::mix runs, the chunks rendered on each track are the first of the
\* playheads at, at + CHUNK_BEATS, ... below duration(), in that order, and the
\* playhead is at + CHUNK_BEATS * (chunks completed); once it has returned
\* without being cancelled they are all of them, and nothing was rendered or
\* streamed when at >= duration().
ChunksRenderedInOrder ==
    /\ pc # "idle" =>
          \A i \in DOMAIN mixer.tracks :
              IsPrefix(RenderPlayheads(i), ChunkStarts(frame.at, frame.duration))
    /\ (pc = "done" /\ ~Cancelled) =>
          /\ \A i \in DOMAIN mixer.tracks :
                RenderPlayheads(i) = ChunkStarts(frame.at, frame.duration)
          /\ mixer.playhead_beats =
                frame.at + CHUNK_BEATS * Len(ChunkStarts(frame.at, frame.duration))
          /\ frame.at >= duration(mixer) => log = <<>>

\* The steps one iteration of the while loop has left, at most: the test, one
\* step per track, the start of the streaming, one step per sample and channel.
StepsLeftInChunk ==
    LET streamed == frame.chunk_size * mixer.channels
    IN  IF pc = "while" THEN 2 + Len(mixer.tracks) + streamed
        ELSE IF pc = "process_chunk"
        THEN 2 + Len(mixer.tracks) - frame.track_index + streamed
        ELSE Max(0, (frame.end_sample - frame.sample) * mixer.channels - frame.channel)

\* A bound on the steps Mixer::mix has left: 0 once it has returned or panicked.
MixRank ==
    IF pc \in {"while", "process_chunk", "callback"}
    THEN 1 + Len(ChunkStarts(mixer.playhead_beats, frame.duration))
               * (3 + Len(mixer.tracks) + frame.chunk_size * mixer.channels)
           + StepsLeftInChunk
    ELSE 0

----------------------------------------------------------------------------
(* Mixer::mix at tempos and sample rates where a chunk of CHUNK_BEATS is   *)
(* not a whole number of samples                                           *)

\* (tempo, sample_rate, channels): 0.25, 0.625 and 0.5 samples per beat, all of
\* which f32 holds exactly, as it does their products with the playheads.
StreamConfigs == {<<240, 1, 1>>, <<480, 5, 1>>, <<120, 1, 1>>}

\* One region of 6 beats, three chunks long, with and without a source.
StreamRegionLists(m) ==
    LET ramp == SomeSource(RampSource(m.sample_rate, m.channels))
    IN  {<< <<NoSource, 0, 3 * CHUNK_BEATS>> >>,
         << <<ramp, 0, 3 * CHUNK_BEATS>> >>}

StreamTracks(m) ==
    {AddRegions([NewBufferTrack(m.channels) EXCEPT !.graph = g], m.tempo, regions, 1) :
        g \in TrackGraphs, regions \in StreamRegionLists(m)}

\* Mixer::new followed by one add_track.
StreamInit ==
    /\ \E config \in StreamConfigs :
          LET m == NewMixer(config[1], config[2], config[3])
          IN  \E track \in StreamTracks(m) : mixer = add_track(m, track)
    /\ MixerIdle
    /\ graph = NewGraph(1, 2)
    /\ sortResult = NoResult
    /\ procResult = NoResult
    /\ ops = 0
    /\ UnitIdle

StreamNext ==
    \/ Prepare
    \/ MixStart
    \/ WhileTest
    \/ RenderTrack
    \/ StartStreaming
    \/ Callback
    \/ EndChunk

StreamSpec == StreamInit /\ [][StreamNext]_mixVars

\* The sample indices handed to the callback for one channel, in call order.
StreamedSamples(channel) ==
    LET OnChannel(e) == IsCallback(e) /\ e.channel = channel
        entries == SelectSeq(log, OnChannel)
    IN  [k \in DOMAIN entries |-> entries[k].sample]

\* C30: during a mix the sample ranges streamed for consecutive chunks are
\* contiguous and disjoint: on every channel each sample index handed to the
\* callback is the one after the index handed before it, at every tempo and
\* sample rate.
C30_StreamedRangesContiguous ==
    \A channel \in 0..(mixer.channels - 1) :
        LET streamed == StreamedSamples(channel)
        IN  \A k \in 1..(Len(streamed) - 1) : streamed[k + 1] = streamed[k] + 1

\* C6: when Mixer::mix(0, cb) has returned without being cancelled, the buffer
\* it returned has beats_as_samples(samples_per_beat, duration()) samples on
\* every channel, and the callback was invoked that many times per channel.
C6_OutputLengthIsDuration ==
    (pc = "done" /\ frame.at = 0 /\ ~Cancelled) =>
        LET n == beats_as_samples(samples_per_beat(mixer), duration(mixer))
        IN  /\ \A c \in 1..mixer.channels : Len(returned.value.data[c]) = n
            /\ \A c \in 0..(mixer.channels - 1) : CallbackCount(c) = n

\* C7: whenever graph.process failed inside render_chunk_at, the rendered_data()
\* call that follows returns Err.
C7_GraphErrorReachesTheMixer ==
    \A k \in DOMAIN log :
        (IsRender(log[k]) /\ ~log[k].graph_ok) => ~log[k].rendered_ok

\* C8: after every render_chunk_at call the stored chunk has exactly
\* chunk_size_samples samples per channel.
C8_StoredChunkHasChunkSize ==
    \A k \in DOMAIN log :
        IsRender(log[k]) => log[k].stored_samples = log[k].chunk_size_samples

----------------------------------------------------------------------------
(* The track list of a mixer: add_track and remove_track calls, each kept  *)
(* with its arguments and the mixer it was called on                       *)

TrackListInit ==
    /\ mixer = NewMixer(120, 2, 2)
    /\ MixerIdle
    /\ graph = NewGraph(1, 2)
    /\ sortResult = NoResult
    /\ procResult = NoResult
    /\ ops = 0
    /\ UnitIdle

\* One more call on the track list, within the explored length.
TrackCall(op, args) ==
    /\ calls < MaxTrackCalls
    /\ calls' = calls + 1
    /\ lastCall' = [op |-> op, args |-> args, before |-> mixer]
    /\ UNCHANGED <<output, frame, pc, returned, log>>
    /\ UNCHANGED graphVars
    /\ UNCHANGED <<buffer_track, history, audio_source, operands>>

\* add_track with a new track, or with a clone of a track of the mixer (which
\* carries that track's id).
ListAddTrack ==
    \E track \in {NewBufferTrack(mixer.channels)} \cup
                 {mixer.tracks[i] : i \in DOMAIN mixer.tracks} :
        /\ TrackCall("add_track", <<track.id>>)
        /\ mixer' = add_track(mixer, track)

ListRemoveTrack ==
    \E id \in 0..(MaxTrackCalls - 1) :
        /\ TrackCall("remove_track", <<id>>)
        /\ mixer' = remove_track(mixer, id)

TrackListNext ==
    \/ ListAddTrack
    \/ ListRemoveTrack

TrackListSpec == TrackListInit /\ [][TrackListNext]_<<mixer, calls, lastCall>>

TrackIds(m) == {m.tracks[i].id : i \in DOMAIN m.tracks}

\* C14: after any sequence of add_track and remove_track calls the ids of the
\* tracks of the mixer are pairwise distinct, and add_track appends the track
\* with the smallest non-negative integer that was not the id of a track of the
\* mixer when it was called.
C14_TrackIdsLowestUnused ==
    /\ \A i \in DOMAIN mixer.tracks, j \in DOMAIN mixer.tracks :
          i # j => mixer.tracks[i].id # mixer.tracks[j].id
    /\ lastCall.op = "add_track" =>
          LET used == TrackIds(lastCall.before)
              new == mixer.tracks[Len(mixer.tracks)].id
          IN  /\ Len(mixer.tracks) = Len(lastCall.before.tracks) + 1
              /\ SubSeq(mixer.tracks, 1, Len(mixer.tracks) - 1) = lastCall.before.tracks
              /\ new \in Nat
              /\ new \notin used
              /\ \A smaller \in 0..(new - 1) : smaller \in used

\* add_track has just reused an id that remove_track had freed, below the id of
\* a track still in the mixer.
C14_Witness ==
    /\ lastCall.op = "add_track"
    /\ Len(lastCall.before.tracks) > 0
    /\ \E id \in TrackIds(lastCall.before) : mixer.tracks[Len(mixer.tracks)].id < id

----------------------------------------------------------------------------
(* One BufferTrack: prepare, render_chunk_at, clone and rendered_data calls *)

\* The mixer whose tempo, sample rate and channel count the calls pass.
TrackMixer == NewMixer(120, 2, 2)

TrackInit ==
    /\ buffer_track \in Tracks(TrackMixer)
    /\ history = <<>>
    /\ lastCall = NoCall
    /\ mixer = TrackMixer
    /\ MixerIdle
    /\ audio_source = AudioSourceNew(0, 0)
    /\ operands = <<>>
    /\ graph = NewGraph(1, 2)
    /\ sortResult = NoResult
    /\ procResult = NoResult
    /\ ops = 0

\* One more call on the track object, within the explored number; a call that
\* panicked is the last one.
TrackOp(op) ==
    /\ Len(history) < MaxTrackOps
    /\ lastCall.op # "panic"
    /\ history' = Append(history, op)
    /\ UNCHANGED graphVars
    /\ UNCHANGED mixVars
    /\ UNCHANGED <<audio_source, operands>>

TrackPrepare ==
    /\ TrackOp("prepare")
    /\ buffer_track' = track_prepare(buffer_track, CHUNK_BEATS, TrackMixer.sample_rate)
    /\ lastCall' = [op |-> "prepare"]

TrackRenderChunkAt ==
    /\ TrackOp("render_chunk_at")
    /\ \E playhead \in MixStarts, order \in QueueOrders(buffer_track.graph) :
          LET r == render_chunk_at(buffer_track, playhead, CHUNK_BEATS, TrackMixer.sample_rate,
                                   samples_per_beat(TrackMixer), order)
          IN  IF r.panic
              THEN /\ lastCall' = [op |-> "panic"]
                   /\ UNCHANGED buffer_track
              ELSE /\ lastCall' = [op |-> "render_chunk_at", playhead |-> playhead,
                                   graph_ok |-> r.graph_ok]
                   /\ buffer_track' = r.track

TrackRenderedData ==
    /\ TrackOp("rendered_data")
    /\ lastCall' = [op |-> "rendered_data", result |-> rendered_data(buffer_track)]
    /\ UNCHANGED buffer_track

\* track.clone(): the calls go on with the clone, a new object.
TrackClone ==
    /\ lastCall.op # "panic"
    /\ buffer_track' = clone(buffer_track)
    /\ history' = <<>>
    /\ lastCall' = [op |-> "clone", of |-> history]
    /\ UNCHANGED graphVars
    /\ UNCHANGED mixVars
    /\ UNCHANGED <<audio_source, operands>>

TrackNext ==
    \/ TrackPrepare
    \/ TrackRenderChunkAt
    \/ TrackRenderedData
    \/ TrackClone

TrackSpec == TrackInit /\ [][TrackNext]_<<buffer_track, history, lastCall>>

\* render_chunk_at has been called on the track object.
WasRendered == \E k \in DOMAIN history : history[k] = "render_chunk_at"

\* C15: rendered_data() on a track on which render_chunk_at has never been
\* called - a new track, or a clone of any track - returns UnknownTrackError
\* carrying the track's id.
C15_UnrenderedTrackIsUnknownTrackError ==
    (lastCall.op = "rendered_data" /\ ~WasRendered) =>
        /\ ~lastCall.result.ok
        /\ lastCall.result.err = UnknownTrackError(buffer_track.id)

\* C26: after BufferTrack::prepare(chunk_size, sample_rate, tempo), also when it
\* is called several times, the track has exactly one resampler per region, and
\* the resampler of region i has the input chunk size
\* beats_as_samples(regions[i].samples_per_beat, chunk_size).
C26_OneResamplerPerRegion ==
    lastCall.op = "prepare" =>
        /\ Len(buffer_track.resamplers) = Len(buffer_track.regions)
        /\ \A i \in DOMAIN buffer_track.regions :
              buffer_track.resamplers[i].chunk_size =
                  beats_as_samples(buffer_track.regions[i].samples_per_beat, CHUNK_BEATS)

----------------------------------------------------------------------------
(* One AudioSource: built by new or zeros, then changed by mix_at calls    *)

\* The buffers passed as `other`: 1 or 2 channels of one length, the sample at
\* index k of channel c being 10 * c + k.
OtherSources ==
    {[sample_rate |-> 1, channels |-> n,
      data |-> [c \in 1..n |-> [k \in 1..length |-> 10 * c + k]]] :
        n \in 1..2, length \in 0..MaxSamples}

SourceInit ==
    /\ audio_source \in
          {AudioSourceNew(1, n) : n \in 1..2} \cup
          {AudioSourceZeros(1, n, length) : n \in 1..2, length \in 0..MaxSamples}
    /\ lastCall = NoCall
    /\ buffer_track = NewBufferTrack(2)
    /\ history = <<>>
    /\ operands = <<>>
    /\ mixer = NewMixer(120, 2, 2)
    /\ MixerIdle
    /\ graph = NewGraph(1, 2)
    /\ sortResult = NoResult
    /\ procResult = NoResult
    /\ ops = 0

SourceMixAt ==
    /\ ops < MaxMixAts
    /\ ops' = ops + 1
    /\ \E other \in OtherSources, offset \in 0..MaxSamples :
          /\ audio_source' = mix_at(audio_source, other, offset)
          /\ lastCall' = [op |-> "mix_at", other |-> other, offset |-> offset,
                          before |-> audio_source]
    /\ UNCHANGED <<graph, sortResult, procResult>>
    /\ UNCHANGED mixVars
    /\ UNCHANGED <<buffer_track, history, operands>>

SourceNext == SourceMixAt

SourceSpec == SourceInit /\ [][SourceNext]_<<audio_source, ops, lastCall>>

\* Channel c (1-based) of the buffer, empty where there is none.
SampleChannel(source, c) == IF c <= Len(source.data) THEN source.data[c] ELSE <<>>

\* The sample of channel c (1-based) at index k (1-based), 0 where there is none.
SampleAt(source, c, k) ==
    IF c <= Len(source.data) /\ k <= Len(source.data[c]) THEN source.data[c][k] ELSE 0

\* C16: b1.mix_at(b2, offset) leaves every sample of b1 below offset and every
\* sample at offset + len(b2 channel) or above unchanged, and makes
\* b1[c][offset + k] its old value (0 where b1 was shorter) plus b2[c][k] for
\* every channel c and index k of b2.
C16_MixAtAddsAtOffset ==
    lastCall.op = "mix_at" =>
        LET b1 == lastCall.before
            b2 == lastCall.other
            offset == lastCall.offset
        IN  /\ \A c \in DOMAIN b1.data :
                  /\ c \in DOMAIN audio_source.data
                  /\ \A k \in DOMAIN b1.data[c] :
                        /\ k \in DOMAIN audio_source.data[c]
                        /\ (k <= offset \/ k > offset + Len(SampleChannel(b2, c)))
                              => audio_source.data[c][k] = b1.data[c][k]
            /\ \A c \in DOMAIN b2.data :
                  /\ c \in DOMAIN audio_source.data
                  /\ \A k \in DOMAIN b2.data[c] :
                        /\ offset + k \in DOMAIN audio_source.data[c]
                        /\ audio_source.data[c][offset + k] =
                              SampleAt(b1, c, offset + k) + b2.data[c][k]

\* mix_at has just added samples at an offset above 0 onto samples that an
\* earlier mix_at had made non-zero, in a channel it had to extend.
C16_Witness ==
    /\ lastCall.op = "mix_at"
    /\ lastCall.offset > 0
    /\ \E c \in DOMAIN lastCall.other.data :
          /\ c \in DOMAIN lastCall.before.data
          /\ Len(lastCall.before.data[c]) < lastCall.offset + Len(lastCall.other.data[c])
          /\ \E k \in DOMAIN lastCall.other.data[c] :
                SampleAt(lastCall.before, c, lastCall.offset + k) # 0

\* C17: an AudioSource built by new or zeros and changed by mix_at calls keeps
\* all its channels at the same length: samples() is the length of every channel.
C17_ChannelsHaveEqualLength ==
    \A c \in DOMAIN audio_source.data : Len(audio_source.data[c]) = samples(audio_source)

----------------------------------------------------------------------------
(* Value::apply_op on two values, and Value::from_buffer / as_buffer       *)

\* The shapes of the operands: up to two dimensions, each of length 1..MaxDim.
Shapes ==
    {<<>>} \cup {<<n>> : n \in 1..MaxDim} \cup {<<n, m>> : n \in 1..MaxDim, m \in 1..MaxDim}

\* The value of the given shape whose leaf at position (i, j) is
\* scale * (50 + 10 * i + j) (scale * (50 + i) with one dimension).
RECURSIVE ValueOfShape(_, _, _)
ValueOfShape(shape, code, scale) ==
    IF shape = <<>> THEN Float(scale * (50 + code))
    ELSE Array([i \in 1..shape[1] |-> ValueOfShape(Tail(shape), 10 * code + i, scale)])

\* The operands of test_value_apply_op (test.rs:87-98).
TestOperands ==
    <<Array(<<Array(<<Float(1), Float(2)>>)>>),
      Array(<<Array(<<Float(3), Float(4)>>), Array(<<Float(5), Float(6)>>),
              Array(<<Float(7), Float(8)>>)>>)>>

\* The buffers passed to from_buffer: up to two channels, each of its own length,
\* the sample at index k of channel c being 10 * c + k.
AudioBuffers ==
    {[c \in 1..n |-> [k \in 1..lengths[c] |-> 10 * c + k]] :
        n \in 0..2, lengths \in [1..2 -> 0..MaxSamples]}

ValueInit ==
    /\ operands \in {TestOperands} \cup
                    {<<ValueOfShape(sa, 0, 1), ValueOfShape(sb, 0, 100)>> :
                        sa \in Shapes, sb \in Shapes}
    /\ lastCall = NoCall
    /\ buffer_track = NewBufferTrack(2)
    /\ history = <<>>
    /\ audio_source = AudioSourceNew(0, 0)
    /\ mixer = NewMixer(120, 2, 2)
    /\ MixerIdle
    /\ graph = NewGraph(1, 2)
    /\ sortResult = NoResult
    /\ procResult = NoResult
    /\ ops = 0

\* Value::apply_op(&[&a, &b], f) with f the sum of its samples.
ValueApplyOp ==
    /\ lastCall' = [op |-> "apply_op", result |-> apply_op(operands, "sum")]
    /\ UNCHANGED operands
    /\ UNCHANGED graphVars
    /\ UNCHANGED mixVars
    /\ UNCHANGED <<buffer_track, history, audio_source>>

\* Value::from_buffer(buffer).as_buffer()
ValueOfBufferAsBuffer ==
    /\ \E buffer \in AudioBuffers :
          lastCall' = [op |-> "from_buffer", buffer |-> buffer,
                       result |-> as_buffer(from_buffer(buffer))]
    /\ UNCHANGED operands
    /\ UNCHANGED graphVars
    /\ UNCHANGED mixVars
    /\ UNCHANGED <<buffer_track, history, audio_source>>

ValueNext ==
    \/ ValueApplyOp
    \/ ValueOfBufferAsBuffer

ValueSpec == ValueInit /\ [][ValueNext]_<<operands, lastCall>>

\* The shape with dimensions of length 1 put in front, up to the given rank.
PadShape(shape, rank) == Repeat(1, rank - Len(shape)) \o shape

\* Two shapes are broadcast-compatible: once the shorter is padded, their lengths
\* agree in every dimension or one of the two is 1.
BroadcastCompatible(sa, sb) ==
    LET rank == Max(Len(sa), Len(sb))
    IN  \A k \in 1..rank :
            \/ PadShape(sa, rank)[k] = PadShape(sb, rank)[k]
            \/ PadShape(sa, rank)[k] = 1
            \/ PadShape(sb, rank)[k] = 1

BroadcastShape(sa, sb) ==
    LET rank == Max(Len(sa), Len(sb))
    IN  [k \in 1..rank |-> Max(PadShape(sa, rank)[k], PadShape(sb, rank)[k])]

\* The positions of a value of the given shape.
Positions(shape) ==
    {pos \in [1..Len(shape) -> 1..MaxDim] : \A k \in 1..Len(shape) : pos[k] <= shape[k]}

RECURSIVE LeafAt(_, _)
LeafAt(v, pos) == IF pos = <<>> THEN v ELSE LeafAt(v.items[pos[1]], Tail(pos))

\* The leaf of v that broadcasting puts at the position of the target shape.
BroadcastLeaf(v, target, pos) ==
    LET shape == get_shape(v)
        skipped == Len(target) - Len(shape)
    IN  LeafAt(v, [k \in 1..Len(shape) |-> IF shape[k] = 1 THEN 1 ELSE pos[skipped + k]])

\* C18: for two values of broadcast-compatible shapes, apply_op returns Some
\* value whose shape is the dimension-wise maximum of the two shapes and whose
\* leaf at each position is f of the leaves of the two values at that position.
C18_ApplyOpBroadcasts ==
    (/\ lastCall.op = "apply_op"
     /\ BroadcastCompatible(get_shape(operands[1]), get_shape(operands[2]))) =>
        LET target == BroadcastShape(get_shape(operands[1]), get_shape(operands[2]))
        IN  /\ lastCall.result.some
            /\ get_shape(lastCall.result.value) = target
            /\ \A pos \in Positions(target) :
                  LeafAt(lastCall.result.value, pos) =
                      Float(SumOf(<<BroadcastLeaf(operands[1], target, pos).sample,
                                    BroadcastLeaf(operands[2], target, pos).sample>>))

\* An argument of that shape cannot be reshaped to the target shape: it has more
\* dimensions, or a dimension whose length is neither the target's nor 1.
CannotReshape(shape, target) ==
    \/ Len(shape) > Len(target)
    \/ \E k \in 1..Len(target) :
          /\ PadShape(shape, Len(target))[k] # target[k]
          /\ PadShape(shape, Len(target))[k] # 1

\* C19: apply_op returns None whenever one of its arguments cannot be reshaped
\* to the target shape.
C19_ApplyOpNoneWhenUnreshapable ==
    LET target == TargetShape([a \in DOMAIN operands |-> get_shape(operands[a])], 1, <<>>)
    IN  (/\ lastCall.op = "apply_op"
         /\ \E a \in DOMAIN operands : CannotReshape(get_shape(operands[a]), target))
            => ~lastCall.result.some

\* C20: Value::from_buffer(b).as_buffer() returns Ok with a buffer equal to b.
C20_BufferRoundTrip ==
    lastCall.op = "from_buffer" =>
        /\ lastCall.result.ok
        /\ lastCall.result.buffer = lastCall.buffer

\* The round trip of a buffer of two channels of different lengths.
C20_Witness ==
    /\ lastCall.op = "from_buffer"
    /\ Len(lastCall.buffer) = 2
    /\ Len(lastCall.buffer[1]) = 2
    /\ Len(lastCall.buffer[2]) = 1
    /\ lastCall.result.ok

----------------------------------------------------------------------------
(* The / and % operators of Value: graph/value/value_impl.rs, and as_buffer *)

\* Option::unwrap_or(Value::Float(0.0)) on the result of apply_op.
UnwrapOrZero(result) ==
    IF result = Panic THEN Panic
    ELSE IF result.some THEN result
    ELSE Some(Float(Zero))

\* impl Div for Value, impl Rem for Value: op is "div" or "rem".
ValueOpValue(op, self, other) ==
    UnwrapOrZero(apply_op(<<self, other>>, IF op = "div" THEN "checked_div" ELSE "checked_rem"))

\* impl Div<Sample> for Value, impl Rem<Sample> for Value
ValueOpSample(op, self, other) ==
    IF other = 0 THEN Some(Float(Zero))
    ELSE UnwrapOrZero(apply_op(<<self, Float(other)>>, op))

\* impl Div<Value> for Sample, impl Rem<Value> for Sample
SampleOpValue(op, self, other) ==
    IF other.tag = "Float" /\ other.sample = 0 THEN Some(Float(Zero))
    ELSE UnwrapOrZero(apply_op(<<Float(self), other>>, op))

\* The samples of the operands of the operators.
Leaves == 0..MaxLeaf

\* The Value operands of the operators: a scalar, or an array of one or two
\* scalars.
LeafValues ==
    {Float(x) : x \in Leaves} \cup {Array(<<Float(x)>>) : x \in Leaves}
        \cup {Array(<<Float(x), Float(y)>>) : x \in Leaves, y \in Leaves}

\* The values as_buffer is called on: every depth from 0 to 3, empty arrays, and
\* arrays whose elements are of different depths.
AsBufferValues ==
    {ValueOfShape(shape, 0, 1) : shape \in Shapes}
        \cup {Array(<<v>>) : v \in {ValueOfShape(shape, 0, 1) : shape \in Shapes}}
        \cup {Array(<<>>), Array(<<Array(<<>>)>>),
              Array(<<Array(<<Float(1)>>), Float(2)>>),
              Array(<<Float(1), Array(<<Float(2)>>)>>),
              Array(<<Array(<<Float(1), Array(<<Float(2)>>)>>)>>)}

OperatorInit ==
    /\ UnitIdle
    /\ mixer = NewMixer(120, 2, 2)
    /\ MixerIdle
    /\ graph = NewGraph(1, 2)
    /\ sortResult = NoResult
    /\ procResult = NoResult
    /\ ops = 0

OperatorCall(call) ==
    /\ lastCall' = call
    /\ UNCHANGED graphVars
    /\ UNCHANGED mixVars
    /\ UNCHANGED <<buffer_track, history, audio_source, operands>>

\* a / b and a % b on two Values
DivRemValues ==
    \E op \in {"div", "rem"}, a \in LeafValues, b \in LeafValues :
        OperatorCall([result |-> ValueOpValue(op, a, b), op |-> op,
                      form |-> "Value, Value", divisor |-> b])

\* a / x and a % x on a Value and a Sample
DivRemBySample ==
    \E op \in {"div", "rem"}, a \in LeafValues, x \in Leaves :
        OperatorCall([result |-> ValueOpSample(op, a, x), op |-> op,
                      form |-> "Value, Scalar", divisor |-> Float(x)])

\* x / b and x % b on a Sample and a Value
DivRemOfSample ==
    \E op \in {"div", "rem"}, x \in Leaves, b \in LeafValues :
        OperatorCall([result |-> SampleOpValue(op, x, b), op |-> op,
                      form |-> "Scalar, Value", divisor |-> b])

\* v.as_buffer()
AsBuffer ==
    \E v \in AsBufferValues :
        OperatorCall([value |-> v, result |-> as_buffer(v), op |-> "as_buffer"])

OperatorNext ==
    \/ DivRemValues
    \/ DivRemBySample
    \/ DivRemOfSample
    \/ AsBuffer

OperatorSpec == OperatorInit /\ [][OperatorNext]_<<lastCall>>

\* The value is an array of arrays of Float leaves.
IsArrayOfArraysOfFloat(v) ==
    /\ v.tag = "Array"
    /\ \A c \in DOMAIN v.items :
          /\ v.items[c].tag = "Array"
          /\ \A k \in DOMAIN v.items[c].items : v.items[c].items[k].tag = "Float"

\* C21: as_buffer returns Ok exactly for the arrays of arrays of Float leaves;
\* a scalar, an array with a Float element and an array of depth 3 or more get
\* Err(TypeError).
C21_AsBufferRejectsOtherDepths ==
    lastCall.op = "as_buffer" =>
        (lastCall.result.ok <=> IsArrayOfArraysOfFloat(lastCall.value))

\* The leaf of the divisor that meets the position of the result: the scalar
\* itself, the only element of an array of one, or the element at the position.
DivisorAt(divisor, pos) ==
    IF divisor.tag = "Float" THEN divisor.sample
    ELSE IF Len(divisor.items) = 1 \/ pos = <<>> THEN divisor.items[1].sample
    ELSE divisor.items[pos[1]].sample

\* C22: every leaf of the result of / and % whose divisor is zero is 0, in the
\* three operand forms.
C22_ZeroDivisorGivesZero ==
    (lastCall.op \in {"div", "rem"} /\ lastCall.result.some) =>
        \A pos \in Positions(get_shape(lastCall.result.value)) :
            DivisorAt(lastCall.divisor, pos) = 0 =>
                LeafAt(lastCall.result.value, pos).sample = Zero

----------------------------------------------------------------------------
(* The regions of one BufferTrack through prepare and render_chunk_at calls, *)
(* each render kept with the regions it took and the slices it cut           *)

\* The region lists followed, as <<source, at, duration>> triples.  The source
\* has 3 samples, which are 3 beats at the tempo and sample rate of TrackMixer.
RenderRegionLists(m) ==
    LET ramp == SomeSource(RampSource(m.sample_rate, m.channels))
    IN  {<< <<ramp, 0, 1>>, <<ramp, 3, 1>> >>,
         << <<ramp, 1, 1>> >>,
         << <<ramp, 0, 4>> >>,
         << <<ramp, 0, 2>>, <<NoSource, 0, 2>> >>,
         << <<NoSource, 0, 1>>, <<ramp, 0, 2>> >>}

RenderTracks(m) ==
    {AddRegions(NewBufferTrack(m.channels), m.tempo, regions, 1) :
        regions \in RenderRegionLists(m)}

\* The playhead and chunk_size arguments of the render_chunk_at calls, in beats.
RenderChunkStarts == {0, 1, CHUNK_BEATS, 2 * CHUNK_BEATS}
RenderChunkSizes == {CHUNK_BEATS, 2 * CHUNK_BEATS}

RenderInit ==
    /\ buffer_track \in RenderTracks(TrackMixer)
    /\ history = <<>>
    /\ lastCall = NoCall
    /\ mixer = TrackMixer
    /\ MixerIdle
    /\ audio_source = AudioSourceNew(0, 0)
    /\ operands = <<>>
    /\ graph = NewGraph(1, 2)
    /\ sortResult = NoResult
    /\ procResult = NoResult
    /\ ops = 0

\* track.prepare(CHUNK_BEATS, sample_rate, tempo), before the first render.
RenderPrepare ==
    /\ history = <<>>
    /\ lastCall = NoCall
    /\ buffer_track' = track_prepare(buffer_track, CHUNK_BEATS, TrackMixer.sample_rate)
    /\ lastCall' = [op |-> "prepare"]
    /\ UNCHANGED history
    /\ UNCHANGED graphVars
    /\ UNCHANGED mixVars
    /\ UNCHANGED <<audio_source, operands>>

\* track.render_chunk_at(playhead, chunk_size, sample_rate, samples_per_beat);
\* a call that panicked is the last one.
RenderChunkAt ==
    /\ Len(history) < MaxRenders
    /\ lastCall.op # "panic"
    /\ \E playhead \in RenderChunkStarts, chunk_size \in RenderChunkSizes,
          order \in QueueOrders(buffer_track.graph) :
          LET r == render_chunk_at(buffer_track, playhead, chunk_size,
                                   TrackMixer.sample_rate, samples_per_beat(TrackMixer),
                                   order)
              call == [chunk_size |-> chunk_size, playhead |-> playhead,
                       rendered |-> r.rendered, mixed |-> r.mixed, active |-> r.active,
                       op |-> IF r.panic THEN "panic" ELSE "render_chunk_at"]
          IN  /\ lastCall' = call
              /\ history' = Append(history, call)
              /\ buffer_track' = IF r.panic THEN buffer_track ELSE r.track
    /\ UNCHANGED graphVars
    /\ UNCHANGED mixVars
    /\ UNCHANGED <<audio_source, operands>>

RenderNext ==
    \/ RenderPrepare
    \/ RenderChunkAt

RenderSpec == RenderInit /\ [][RenderNext]_<<buffer_track, history, lastCall>>

\* The index (0-based) in the regions vector of the region with the given id.
RegionIndex(id) ==
    (CHOOSE i \in DOMAIN buffer_track.regions : buffer_track.regions[i].id = id) - 1

RegionOfId(id) == buffer_track.regions[RegionIndex(id) + 1]

\* C25: across successive render_chunk_at calls a region is always resampled by
\* the resampler at the region's index in the regions vector, so a region keeps
\* its resampler and two regions never share one.
C25_RegionKeepsItsResampler ==
    \A k \in DOMAIN history :
        history[k].op = "render_chunk_at" =>
            \A j \in DOMAIN history[k].rendered :
                history[k].rendered[j].resampler = RegionIndex(history[k].rendered[j].id)

\* C27: in render_chunk_at the bounds of the slice taken from the source of an
\* active region satisfy 0 <= start_sample <= end_sample <= source.samples().
C27_SliceWithinSource ==
    \A k \in DOMAIN history :
        \A j \in DOMAIN history[k].rendered :
            LET slice == history[k].rendered[j]
            IN  /\ 0 <= slice.start_sample
                /\ slice.start_sample <= slice.end_sample
                /\ slice.end_sample <= slice.source_samples

\* C28: when the only region rendered in a chunk starts after the playhead, the
\* chunk has gap_samples = beats_as_samples(samples_per_beat, start - playhead)
\* zeros in front of the region's slice: the first sample of the slice is at
\* index gap_samples of the chunk.
C28_GapBeforeLateRegion ==
    (/\ lastCall.op = "render_chunk_at"
     /\ Len(lastCall.rendered) = 1
     /\ RegionOfId(lastCall.rendered[1].id).start_time > lastCall.playhead
     /\ lastCall.rendered[1].start_sample < lastCall.rendered[1].end_sample) =>
        LET region == RegionOfId(lastCall.rendered[1].id)
            gap_samples == beats_as_samples(region.samples_per_beat,
                                            region.start_time - lastCall.playhead)
        IN  \A c \in DOMAIN lastCall.mixed.data :
                /\ \A i \in 1..gap_samples : lastCall.mixed.data[c][i] = 0
                /\ lastCall.mixed.data[c][gap_samples + 1] =
                      region.source.source.data[c][lastCall.rendered[1].start_sample + 1]

====
